---- MODULE Spec2Model ----
(***************************************************************************)
(* Fantasy Football Player Analyst (src/app.py): the roster fetch/filter   *)
(* get_player_list, the stat resolver get_player_stats, both behind the    *)
(* time-bounded memo of st.cache_data, and the page script that a browser  *)
(* session reruns top to bottom on every interaction.                      *)
(*                                                                         *)
(* Python strings are sequences of code points, so that formatting a       *)
(* label, splitting it again and comparing labels in list.sort() are       *)
(* computed, not assumed.  A JSON field that dict.get() finds absent is    *)
(* the empty tuple <<>>, a present string s is <<s>>.                      *)
(***************************************************************************)
EXTENDS Naturals, Sequences, FiniteSets

VARIABLES
  fpc, fResp, fOut,                 \* one call of the body of get_player_list
  gpc, gSel, gResp, gOut,           \* one call of the body of get_player_stats
  secretsOk,                        \* both keys are in st.secrets
  now,                              \* wall clock, in seconds
  rosterCache, statsCache,          \* the process-wide st.cache_data stores
  sess,                             \* per browser session: the script run and its page
  playersRequests,                  \* the GETs sent to the Players endpoint: when, and
                                    \* lastReturn as it was then
  lastReturn,                       \* when get_player_list's body last returned
  runs                              \* script runs started so far

filterVars == <<fpc, fResp, fOut>>
statsVars  == <<gpc, gSel, gResp, gOut>>
pageVars   == <<secretsOk, now, rosterCache, statsCache, sess, playersRequests, lastReturn, runs>>
vars       == <<filterVars, statsVars, pageVars>>

----------------------------------------------------------------------------
(* Strings                                                                 *)

Absent == <<>>
Some(s) == <<s>>

sA == <<65>>                                  \* "A"
sB == <<66>>                                  \* "B"
sC == <<67>>                                  \* "C"
sX == <<88>>                                  \* "X"
sY == <<89>>                                  \* "Y"
sWR == <<87, 82>>                             \* "WR"
sTE == <<84, 69>>                             \* "TE"
sQB == <<81, 66>>                             \* "QB"
sActive == <<65, 99, 116, 105, 118, 101>>     \* "Active"
sInactive == <<73, 110, 97, 99, 116, 105, 118, 101>>  \* "Inactive"
sNone == <<78, 111, 110, 101>>                \* str(None) = "None"
sOpen == <<32, 40>>                           \* " ("
sClose == <<41>>                              \* ")"
sAParenB == <<65, 32, 40, 66>>                \* "A (B", a name holding " ("

\* f'{v}' of the value dict.get() returned: the string itself, or "None".
Fmt(v) == IF v = Absent THEN sNone ELSE v[1]

\* f'{player.get("Name")} ({player.get("Team")})'
Label(player) == Fmt(player.Name) \o sOpen \o Fmt(player.Team) \o sClose

MinOf(S) == CHOOSE x \in S : \A y \in S : x <= y

\* Python's str.__le__: by code point at the first difference, a proper
\* prefix first.
StrLeq(a, b) ==
  LET n == IF Len(a) <= Len(b) THEN Len(a) ELSE Len(b)
      diff == {i \in 1..n : a[i] # b[i]}
  IN  IF diff = {} THEN Len(a) <= Len(b) ELSE a[MinOf(diff)] < b[MinOf(diff)]

RECURSIVE Insert(_, _)
Insert(x, s) ==
  IF s = <<>> THEN <<x>>
  ELSE IF StrLeq(s[1], x) THEN <<s[1]>> \o Insert(x, Tail(s))
  ELSE <<x>> \o s

RECURSIVE SortFrom(_, _)
SortFrom(s, acc) == IF s = <<>> THEN acc ELSE SortFrom(Tail(s), Insert(s[1], acc))

SortIdentity(s) == s
\* list.sort() on a list of str
ListSort(s) == SortFrom(s, <<>>)

SplitNone(s) == s
\* s.split(' (')[0]: the text before the first occurrence of " (", or all
\* of s when there is none.
SplitFirst(s) ==
  LET hits == {i \in 1..(Len(s) - 1) : s[i] = sOpen[1] /\ s[i + 1] = sOpen[2]}
  IN  IF hits = {} THEN s ELSE SubSeq(s, 1, MinOf(hits) - 1)

Range(s) == {s[i] : i \in DOMAIN s}
Count(s, x) == Cardinality({i \in DOMAIN s : s[i] = x})

\* Sequences over S of length at most n.
SeqsUpTo(S, n) == UNION {[1..k -> S] : k \in 0..n}

----------------------------------------------------------------------------
(* get_player_list: the function body, src/app.py lines 19-48              *)

MaxRoster == 2

Player(n, t, p, st) == [obj |-> TRUE, Name |-> n, Team |-> t, Position |-> p, Status |-> st]
\* A JSON array element that is no object (null, a number, a string):
\* it has no .get, so player.get(...) raises AttributeError.
NonObject == [obj |-> FALSE, Name |-> Absent, Team |-> Absent, Position |-> Absent, Status |-> Absent]

RosterNames == {Absent, Some(sA), Some(sB)}
RosterTeams == {Absent, Some(sX), Some(sY)}
RosterPositions == {Absent, Some(sWR), Some(sTE), Some(sQB)}
RosterStatuses == {Some(sActive), Some(sInactive)}
RosterElems ==
  {Player(n, t, p, st) : n \in RosterNames, t \in RosterTeams,
                         p \in RosterPositions, st \in RosterStatuses}
  \cup {NonObject}

\* What requests.get + raise_for_status + response.json() can end in.
OkResp(body) == [kind |-> "ok", body |-> body]
HttpErrorResp == [kind |-> "http_error", body |-> <<>>]       \* non-2xx, e.g. 401
NetworkErrorResp == [kind |-> "network_error", body |-> <<>>] \* no response at all
FailedResp(r) == r.kind \in {"http_error", "network_error"}

EligibleAnyStatus(player) == player.Position \in {Some(sWR), Some(sTE)}
\* player.get("Position") in ["WR", "TE"] and player.get("Status") == "Active"
Eligible(player) ==
  /\ player.Position \in {Some(sWR), Some(sTE)}
  /\ player.Status = Some(sActive)

\* The list comprehension of lines 33-37, in the order of player_data.
ListComp(player_data) ==
  LET kept == SelectSeq(player_data, Eligible)
  IN  [i \in 1..Len(kept) |-> Label(kept[i])]

\* The call's outcome: raised (an exception leaves the function), the list
\* before and after wr_te_players.sort(), and the st.error messages.
Outcome(raised, pre, value, msgs) ==
  [raised |-> raised, pre |-> pre, value |-> value, msgs |-> msgs]

\* get_player_list without its except clause.
get_player_list_reraising(resp) ==
  IF FailedResp(resp) \/ \E i \in DOMAIN resp.body : ~resp.body[i].obj
    THEN Outcome(TRUE, <<>>, <<>>, {})
    ELSE Outcome(FALSE, ListComp(resp.body), ListSort(ListComp(resp.body)), {})
get_player_list(resp) ==
  IF resp.kind = "http_error" THEN Outcome(FALSE, <<>>, <<>>, {"HTTP Error"})
  ELSE IF resp.kind = "network_error" THEN Outcome(FALSE, <<>>, <<>>, {"Network Error"})
  ELSE IF \E i \in DOMAIN resp.body : ~resp.body[i].obj
       THEN Outcome(TRUE, <<>>, <<>>, {})      \* AttributeError, not a RequestException
  ELSE Outcome(FALSE, ListComp(resp.body), ListSort(ListComp(resp.body)), {})

NoOutcome == Outcome(FALSE, <<>>, <<>>, {})

FilterResponses ==
  {OkResp(b) : b \in SeqsUpTo(RosterElems, MaxRoster)} \cup {HttpErrorResp, NetworkErrorResp}

CallGetPlayerList ==
  /\ fpc = "start"
  /\ fOut' = get_player_list(fResp)
  /\ fpc' = IF fOut'.raised THEN "raised" ELSE "returned"
  /\ UNCHANGED <<fResp, statsVars, pageVars>>

----------------------------------------------------------------------------
(* get_player_stats: the function body, src/app.py lines 52-87             *)

MaxSelected == 2
MaxStats == 2

\* A record of the PlayerSeasonStats array; only Name is read by the code,
\* Team tells two records of one name apart.
StatRec(n, t) == [obj |-> TRUE, Name |-> n, Team |-> t]
StatNonObject == [obj |-> FALSE, Name |-> Absent, Team |-> Absent]
StatElems ==
  {StatRec(n, t) : n \in {Absent, Some(sA), Some(sB)}, t \in {Some(sX), Some(sY)}}
  \cup {StatNonObject}

\* The labels a user can have picked: labels get_player_list builds.
SelectableLabels ==
  {Label(Player(n, t, Some(sWR), Some(sActive))) :
     n \in {Some(sA), Some(sB), Some(sC), Some(sAParenB)}, t \in {Some(sX), Some(sY)}}

\* st.multiselect returns the picked options in the order picked, each once.
Selections(labels, n) ==
  {sel \in SeqsUpTo(labels, n) : \A i, j \in DOMAIN sel : i # j => sel[i] # sel[j]}

EmptyDict == <<>>
\* d[k] = v
DictSet(d, k, v) == [x \in DOMAIN d \cup {k} |-> IF x = k THEN v ELSE d[x]]

\* next((p for p in all_stats_data if p.get('Name') == name_only), None):
\* the index of the first match, 0 for None.
FirstMatch(all_stats_data, name_only) ==
  LET hits == {i \in DOMAIN all_stats_data : all_stats_data[i].Name = Some(name_only)}
  IN  IF hits = {} THEN 0 ELSE MinOf(hits)

\* The generator calls p.get on every element up to and including the first
\* match (on all of them when there is none): a non-object there raises.
SearchRaises(all_stats_data, name_only) ==
  LET m == FirstMatch(all_stats_data, name_only)
      last == IF m = 0 THEN Len(all_stats_data) ELSE m
  IN  \E i \in 1..last : ~all_stats_data[i].obj

StatsStepAborting(d, player_name, all_stats_data) ==
  LET name_only == SplitFirst(player_name)
      m == FirstMatch(all_stats_data, name_only)
  IN  IF m # 0 THEN DictSet(d, name_only, all_stats_data[m]) ELSE EmptyDict
\* One iteration of the loop of lines 73-81.
StatsStep(d, player_name, all_stats_data) ==
  LET name_only == SplitFirst(player_name)
      m == FirstMatch(all_stats_data, name_only)
  IN  IF m # 0 THEN DictSet(d, name_only, all_stats_data[m]) ELSE d

RECURSIVE StatsLoop(_, _, _)
StatsLoop(d, player_names, all_stats_data) ==
  IF player_names = <<>> THEN d
  ELSE StatsLoop(StatsStep(d, player_names[1], all_stats_data),
                 Tail(player_names), all_stats_data)

\* The outcome of one call: raised, the dict returned, the st.error
\* messages, and whether the season-stats request was sent at all.
StatsOutcome(raised, value, msgs, requested) ==
  [raised |-> raised, value |-> value, msgs |-> msgs, requested |-> requested]

get_player_stats(player_names, resp) ==
  IF player_names = <<>> THEN StatsOutcome(FALSE, EmptyDict, {}, FALSE)
  ELSE IF FailedResp(resp)
       THEN StatsOutcome(FALSE, EmptyDict, {"Error fetching stats"}, TRUE)
  ELSE IF \E i \in DOMAIN player_names : SearchRaises(resp.body, SplitFirst(player_names[i]))
       THEN StatsOutcome(TRUE, EmptyDict, {}, TRUE)   \* AttributeError leaves the function
  ELSE StatsOutcome(FALSE, StatsLoop(EmptyDict, player_names, resp.body), {}, TRUE)

NoStatsOutcome == StatsOutcome(FALSE, EmptyDict, {}, FALSE)

StatsResponses ==
  {OkResp(b) : b \in SeqsUpTo(StatElems, MaxStats)} \cup {HttpErrorResp, NetworkErrorResp}

CallGetPlayerStats ==
  /\ gpc = "start"
  /\ gOut' = get_player_stats(gSel, gResp)
  /\ gpc' = IF gOut'.raised THEN "raised" ELSE "returned"
  /\ UNCHANGED <<gSel, gResp, filterVars, pageVars>>

----------------------------------------------------------------------------
(* The memo of st.cache_data and the page script, src/app.py lines 9-170   *)

RosterTTL == 86400
StatsTTL == 3600
ClockStep == 43200      \* the clock advances in steps of this many seconds
MaxTicks == 2           \* and at most this many times
MaxRuns == 4            \* script runs, over all sessions

Sessions == {"s1", "s2"}

NoEntry == [full |-> FALSE, value |-> <<>>, msgs |-> {}, written |-> 0]
Entry(value, msgs, t) == [full |-> TRUE, value |-> value, msgs |-> msgs, written |-> t]

NeverFresh(entry, ttl, t) == FALSE
\* A stored result is served until ttl seconds after it was written.
Fresh(entry, ttl, t) == entry.full /\ t < entry.written + ttl

\* The responses the two endpoints and the model give in the page runs.
PageRoster == <<Player(Some(sB), Some(sX), Some(sTE), Some(sActive)),
                Player(Some(sA), Some(sX), Some(sWR), Some(sActive)),
                Player(Some(sC), Some(sY), Some(sQB), Some(sActive))>>
PageRosterResponses ==
  {OkResp(PageRoster), OkResp(<<NonObject>>), HttpErrorResp, NetworkErrorResp}
PageStatsResponses ==
  {OkResp(<<StatRec(Some(sA), Some(sX))>>), OkResp(<<StatNonObject>>), HttpErrorResp}

Stages == <<"fetching-roster", "awaiting-selection", "resolving-stats",
            "composing-prompt", "awaiting-model-response", "rendering-result">>

NoPrompt == [names |-> <<>>, data |-> EmptyDict]

\* A session between runs, before its first run.
FreshSession ==
  [pc |-> "idle", clicked |-> FALSE, selected |-> <<>>, options |-> <<>>,
   shown |-> {}, trace |-> <<>>, events |-> {}, stats |-> EmptyDict, prompt |-> NoPrompt]

\* The script has run to its end (or was stopped): its locals are gone, the
\* page it rendered and the widgets' state stay.
EndRun(r) == [r EXCEPT !.pc = "idle", !.clicked = FALSE, !.stats = EmptyDict, !.prompt = NoPrompt]

OptionsEmptyNever(options) == FALSE
\* line 100: if not PLAYER_OPTIONS
OptionsEmpty(options) == options = <<>>

SelectionMissingNever(selected) == FALSE
\* line 111: if not selected_players
SelectionMissing(selected) == selected = <<>>

\* Lines 98-113 once get_player_list has returned options (with the st.error
\* messages msgs it made or replayed).  A multiselect whose options changed
\* is a new widget and starts empty.
AfterRoster(r, options, msgs) ==
  LET sel == IF options = r.options THEN r.selected ELSE <<>>
      base == [r EXCEPT !.options = options, !.selected = sel, !.shown = @ \cup msgs]
      widgets == [base EXCEPT !.shown = @ \cup {"multiselect", "button"},
                              !.trace = Append(@, "awaiting-selection")]
  IN  IF OptionsEmpty(options)
        THEN EndRun([base EXCEPT !.shown = @ \cup {"could_not_load"}])
      ELSE IF ~r.clicked THEN EndRun(widgets)
      ELSE IF SelectionMissing(sel)
        THEN EndRun([widgets EXCEPT !.shown = @ \cup {"select_warning"}])
      ELSE [widgets EXCEPT !.pc = "resolving-stats",
                           !.trace = Append(@, "resolving-stats")]

\* Lines 118-121 once get_player_stats has returned.
AfterStats(r, value, msgs) ==
  [r EXCEPT !.stats = value, !.shown = @ \cup msgs \cup {"diagnostic"},
            !.pc = "composing-prompt", !.trace = Append(@, "composing-prompt")]

\* A user opens or reloads the page, changes the selection, or presses the
\* button: the script reruns from line 1.  Lines 9-14 stop it at once when a
\* key is missing.
StartRun(s) ==
  /\ sess[s].pc = "idle"
  /\ runs < MaxRuns
  /\ runs' = runs + 1
  /\ \E ev \in {"load", "select", "click"} :
     \E sel \in Selections(Range(sess[s].options), MaxSelected) :
       /\ ev # "load" => "multiselect" \in sess[s].shown
       /\ ev = "select" => sel # sess[s].selected
       /\ ev # "select" => sel = (IF ev = "load" THEN <<>> ELSE sess[s].selected)
       /\ LET r == [sess[s] EXCEPT !.selected = sel, !.clicked = (ev = "click"),
                                   !.trace = <<>>, !.events = {}, !.shown = {}]
          IN  sess' = [sess EXCEPT ![s] =
                IF secretsOk
                  THEN [r EXCEPT !.pc = "fetching-roster",
                                 !.trace = <<"fetching-roster">>]
                  ELSE EndRun([r EXCEPT !.shown = {"keys_error"}, !.events = {"keys_failed"}])]
  /\ UNCHANGED <<secretsOk, now, rosterCache, statsCache, playersRequests, lastReturn,
                 filterVars, statsVars>>

\* Line 98, the memo's wrapper: a fresh entry is returned (its st.error
\* messages replayed) without running the body; otherwise the body runs and
\* line 28 sends the request.  Nothing is held between the lookup and the
\* store, so two sessions can both miss.
RosterLookup(s) ==
  /\ sess[s].pc = "fetching-roster"
  /\ IF Fresh(rosterCache, RosterTTL, now)
       THEN /\ sess' = [sess EXCEPT ![s] =
                 AfterRoster([@ EXCEPT !.events = @ \cup {"roster_hit"}],
                             rosterCache.value, rosterCache.msgs)]
            /\ UNCHANGED playersRequests
       ELSE /\ sess' = [sess EXCEPT ![s].pc = "roster-http"]
            /\ playersRequests' = Append(playersRequests, [t |-> now, seen |-> lastReturn])
  /\ UNCHANGED <<secretsOk, now, rosterCache, statsCache, lastReturn, runs,
                 filterVars, statsVars>>

\* Lines 28-48 once the request has ended; the memo stores what the body
\* returns, the empty list of the except branch too.  An exception that
\* leaves the body ends the script run, and nothing is stored.
RosterResponse(s) ==
  /\ sess[s].pc = "roster-http"
  /\ \E resp \in PageRosterResponses :
       LET out == get_player_list(resp)
           ev == IF FailedResp(resp) THEN {"roster_failed"} ELSE {}
       IN  IF out.raised
             THEN /\ sess' = [sess EXCEPT ![s] =
                       EndRun([@ EXCEPT !.shown = @ \cup {"exception"},
                                        !.events = @ \cup ev \cup {"roster_raised"}])]
                  /\ UNCHANGED <<rosterCache, lastReturn>>
             ELSE /\ rosterCache' = Entry(out.value, out.msgs, now)
                  /\ lastReturn' = [set |-> TRUE, t |-> now]
                  /\ sess' = [sess EXCEPT ![s] =
                       AfterRoster([@ EXCEPT !.events = @ \cup ev], out.value, out.msgs)]
  /\ UNCHANGED <<secretsOk, now, statsCache, playersRequests, runs, filterVars, statsVars>>

StatsEntry(key) ==
  IF \E e \in statsCache : e.key = key
    THEN (CHOOSE e \in statsCache : e.key = key).entry
    ELSE NoEntry

\* Line 118, the memo's wrapper, keyed by the argument.  The body returns
\* at line 54 without a request when the list is empty.
StatsLookup(s) ==
  /\ sess[s].pc = "resolving-stats"
  /\ LET key == sess[s].selected
         e == StatsEntry(key)
     IN  IF Fresh(e, StatsTTL, now)
           THEN /\ sess' = [sess EXCEPT ![s] =
                     AfterStats([@ EXCEPT !.events = @ \cup {"stats_hit"}], e.value, e.msgs)]
                /\ UNCHANGED statsCache
         ELSE IF key = <<>>
           THEN /\ sess' = [sess EXCEPT ![s] = AfterStats(@, EmptyDict, {})]
                /\ statsCache' = {x \in statsCache : x.key # key}
                                   \cup {[key |-> key, entry |-> Entry(EmptyDict, {}, now)]}
         ELSE /\ sess' = [sess EXCEPT ![s].pc = "stats-http"]
              /\ UNCHANGED statsCache
  /\ UNCHANGED <<secretsOk, now, rosterCache, playersRequests, lastReturn, runs,
                 filterVars, statsVars>>

\* Lines 69-87 once the request has ended.  An exception that leaves
\* get_player_stats is caught at line 169.
StatsResponse(s) ==
  /\ sess[s].pc = "stats-http"
  /\ \E resp \in PageStatsResponses :
       LET out == get_player_stats(sess[s].selected, resp)
           ev == IF FailedResp(resp) THEN {"stats_failed"} ELSE {}
       IN  IF out.raised
             THEN /\ sess' = [sess EXCEPT ![s] =
                       EndRun([@ EXCEPT !.shown = @ \cup {"An error occurred"},
                                        !.events = @ \cup {"stats_raised"}])]
                  /\ UNCHANGED statsCache
             ELSE /\ statsCache' = {x \in statsCache : x.key # sess[s].selected}
                       \cup {[key |-> sess[s].selected,
                              entry |-> Entry(out.value, out.msgs, now)]}
                  /\ sess' = [sess EXCEPT ![s] =
                       AfterStats([@ EXCEPT !.events = @ \cup ev], out.value, out.msgs)]
  /\ UNCHANGED <<secretsOk, now, rosterCache, playersRequests, lastReturn, runs,
                 filterVars, statsVars>>

\* Lines 125-163: the prompt is built from the selection and the stats, and
\* generate_content is called with it.
ComposePrompt(s) ==
  /\ sess[s].pc = "composing-prompt"
  /\ sess' = [sess EXCEPT ![s] =
       [@ EXCEPT !.prompt = [names |-> sess[s].selected, data |-> sess[s].stats],
                 !.pc = "awaiting-model-response",
                 !.trace = Append(@, "awaiting-model-response")]]
  /\ UNCHANGED <<secretsOk, now, rosterCache, statsCache, playersRequests, lastReturn, runs,
                 filterVars, statsVars>>

\* Lines 163-170: the call returns and the report is rendered, or it raises
\* and line 170 reports it.
ModelResponse(s) ==
  /\ sess[s].pc = "awaiting-model-response"
  /\ \E ok \in BOOLEAN :
       sess' = [sess EXCEPT ![s] =
         IF ok
           THEN EndRun([@ EXCEPT !.shown = @ \cup {"report"},
                                 !.trace = Append(@, "rendering-result")])
           ELSE EndRun([@ EXCEPT !.shown = @ \cup {"An error occurred"},
                                 !.events = @ \cup {"model_failed"}])]
  /\ UNCHANGED <<secretsOk, now, rosterCache, statsCache, playersRequests, lastReturn, runs,
                 filterVars, statsVars>>

\* Time passes; an entry past its ttl is never served again and is dropped.
Tick ==
  /\ now < MaxTicks * ClockStep
  /\ now' = now + ClockStep
  /\ rosterCache' = IF Fresh(rosterCache, RosterTTL, now') THEN rosterCache ELSE NoEntry
  /\ statsCache' = {x \in statsCache : Fresh(x.entry, StatsTTL, now')}
  /\ UNCHANGED <<secretsOk, sess, playersRequests, lastReturn, runs, filterVars, statsVars>>

----------------------------------------------------------------------------
(* Specifications                                                          *)

FilterIdle == fpc = "off" /\ fResp = HttpErrorResp /\ fOut = NoOutcome
StatsIdle == gpc = "off" /\ gSel = <<>> /\ gResp = HttpErrorResp /\ gOut = NoStatsOutcome
PageIdle ==
  /\ secretsOk = TRUE /\ now = 0 /\ rosterCache = NoEntry /\ statsCache = {}
  /\ sess = [s \in Sessions |-> FreshSession]
  /\ playersRequests = <<>> /\ lastReturn = [set |-> FALSE, t |-> 0] /\ runs = 0

\* The page: sessions rerunning the script against the shared memo.
Init ==
  /\ FilterIdle /\ StatsIdle
  /\ secretsOk \in BOOLEAN /\ now = 0 /\ rosterCache = NoEntry /\ statsCache = {}
  /\ sess = [s \in Sessions |-> FreshSession]
  /\ playersRequests = <<>> /\ lastReturn = [set |-> FALSE, t |-> 0] /\ runs = 0

Next ==
  \/ \E s \in Sessions : StartRun(s)
  \/ \E s \in Sessions : RosterLookup(s)
  \/ \E s \in Sessions : RosterResponse(s)
  \/ \E s \in Sessions : StatsLookup(s)
  \/ \E s \in Sessions : StatsResponse(s)
  \/ \E s \in Sessions : ComposePrompt(s)
  \/ \E s \in Sessions : ModelResponse(s)
  \/ Tick

Spec == Init /\ [][Next]_vars

\* get_player_list applied to every response within the bounds.
InitFilter == fpc = "start" /\ fResp \in FilterResponses /\ fOut = NoOutcome /\ StatsIdle /\ PageIdle
NextFilter == CallGetPlayerList
SpecFilter == InitFilter /\ [][NextFilter]_vars

\* get_player_stats applied to every selection and response within the bounds.
InitStats ==
  /\ gpc = "start" /\ gSel \in Selections(SelectableLabels, MaxSelected)
  /\ gResp \in StatsResponses /\ gOut = NoStatsOutcome
  /\ FilterIdle /\ PageIdle
NextStats == CallGetPlayerStats
SpecStats == InitStats /\ [][NextStats]_vars

----------------------------------------------------------------------------
(* Properties of get_player_list, checked under SpecFilter                 *)

AllObjects(body) == \A i \in DOMAIN body : body[i].obj

\* An active wide receiver or tight end, as the specification words it.
ActiveReceiver(p) ==
  /\ p.obj
  /\ p.Position = Some(sWR) \/ p.Position = Some(sTE)
  /\ p.Status = Some(sActive)

WellFormed(p) == p.obj /\ p.Name # Absent /\ p.Team # Absent
WellFormedActiveReceiver(p) == WellFormed(p) /\ ActiveReceiver(p)

\* How many records of body satisfying Keep(_) carry the label l.
Carriers(body, l, Keep(_)) ==
  Cardinality({i \in DOMAIN body : Keep(body[i]) /\ Label(body[i]) = l})

ExampleRoster ==
  <<Player(Some(sA), Some(sX), Some(sWR), Some(sActive)),
    Player(Some(sB), Some(sY), Some(sQB), Some(sActive))>>
ExampleLabels == << <<65, 32, 40, 88, 41>> >>                 \* ["A (X)"]

FilterRan == fpc # "start" /\ fResp.kind = "ok"

\* C1: on a roster of records the returned list holds one label per active
\* WR/TE record and nothing else: every label occurs exactly as often as
\* there are active WR/TE records carrying it, so no inactive or non-WR/TE
\* record contributes and no active WR/TE record is left out; the roster
\* [A/X/WR/Active, B/Y/QB/Active] yields exactly ["A (X)"].
C1_FilterExact ==
  (FilterRan /\ AllObjects(fResp.body)) =>
    /\ fpc = "returned"
    /\ \A l \in Range(fOut.value) \cup {Label(p) : p \in Range(fResp.body)} :
         Count(fOut.value, l) = Carriers(fResp.body, l, ActiveReceiver)
    /\ fResp.body = ExampleRoster => fOut.value = ExampleLabels

C1_Witness ==
  /\ fpc = "returned" /\ fResp.kind = "ok" /\ Len(fResp.body) = 2
  /\ ActiveReceiver(fResp.body[1])
  /\ ~ActiveReceiver(fResp.body[2]) /\ fResp.body[2].Position = Some(sQB)
  /\ fOut.value = <<Label(fResp.body[1])>>

\* C2: the returned list holds no label twice, and every label in it
\* belongs to exactly one active WR/TE record of the roster (stated for
\* rosters whose records all have Name and Team, where no label is "None").
C2_NoDuplicateLabels ==
  (fpc = "returned" /\ \A p \in Range(fResp.body) : WellFormed(p)) =>
    /\ \A i, j \in DOMAIN fOut.value : i # j => fOut.value[i] # fOut.value[j]
    /\ \A l \in Range(fOut.value) : Carriers(fResp.body, l, ActiveReceiver) = 1

\* a is b or comes before it in lexicographic order of code points.
LexLeq(a, b) ==
  \/ Len(a) <= Len(b) /\ \A i \in 1..Len(a) : a[i] = b[i]
  \/ \E k \in 1..Len(a) :
       /\ k <= Len(b) /\ a[k] < b[k]
       /\ \A i \in 1..(k - 1) : a[i] = b[i]

\* C3: the returned list is in ascending lexicographic order and is a
\* permutation of the list the comprehension built.
C3_SortedPermutation ==
  fpc = "returned" =>
    /\ \A i, j \in DOMAIN fOut.value : i < j => LexLeq(fOut.value[i], fOut.value[j])
    /\ Len(fOut.value) = Len(fOut.pre)
    /\ \A l \in Range(fOut.value) \cup Range(fOut.pre) :
         Count(fOut.value, l) = Count(fOut.pre, l)

C3_Witness ==
  /\ fpc = "returned" /\ Len(fOut.value) = 2
  /\ fOut.value # fOut.pre
  /\ fOut.value[1] # fOut.value[2]

\* C8: a record that is malformed or lacks Name or Team is skipped: the
\* fetch still returns, with exactly the labels of the well-formed active
\* WR/TE records.
C8_MalformedSkipped ==
  FilterRan =>
    /\ fpc = "returned"
    /\ \A l \in Range(fOut.value) \cup {Label(p) : p \in Range(fResp.body)} :
         Count(fOut.value, l) = Carriers(fResp.body, l, WellFormedActiveReceiver)

----------------------------------------------------------------------------
(* Properties of get_player_stats, checked under SpecStats                 *)

IsPrefix(p, l) == Len(p) <= Len(l) /\ \A i \in 1..Len(p) : p[i] = l[i]
Prefixes(l) == {SubSeq(l, 1, k) : k \in 0..Len(l)}
\* The text of l before its first " (": the shortest prefix that " ("
\* follows, or l itself when none does.
BareName(l) ==
  LET cuts == {p \in Prefixes(l) : IsPrefix(p \o sOpen, l)}
  IN  IF cuts = {} THEN l
      ELSE CHOOSE p \in cuts : \A q \in cuts : Len(p) <= Len(q)

Resolvable(l, body) == \E j \in DOMAIN body : body[j].Name = Some(BareName(l))
FirstWithName(body, n) ==
  body[CHOOSE j \in DOMAIN body :
         /\ body[j].Name = Some(n)
         /\ \A k \in 1..(j - 1) : body[k].Name # Some(n)]

StatsRan == gpc # "start" /\ gResp.kind = "ok"
OneOfEach ==
  /\ Len(gSel) = 2
  /\ \E i, j \in DOMAIN gSel : Resolvable(gSel[i], gResp.body) /\ ~Resolvable(gSel[j], gResp.body)

C10_KeyedByBareName ==
  (gpc = "returned" /\ gResp.kind = "ok") =>
    LET found == {BareName(l) : l \in {x \in Range(gSel) : Resolvable(x, gResp.body)}}
    IN  /\ DOMAIN gOut.value = found
        /\ \A n \in found : gOut.value[n] = FirstWithName(gResp.body, n)
        /\ Cardinality(DOMAIN gOut.value) <= Len(gSel)

C10_Witness ==
  /\ gpc = "returned" /\ gResp.kind = "ok" /\ Len(gSel) = 2
  /\ BareName(gSel[1]) = BareName(gSel[2])
  /\ Cardinality(DOMAIN gOut.value) = 1
  /\ \E n \in DOMAIN gOut.value : gOut.value[n].Team = Some(sY) /\ Len(gResp.body) = 2

----------------------------------------------------------------------------
(* Properties of the page script and the memo, checked under Spec          *)

InTrace(s, stage) == \E i \in DOMAIN sess[s].trace : sess[s].trace[i] = stage

\* C4: when the roster request of a run fails (non-2xx or no response), an
\* error is shown, get_player_list returns the empty list without raising,
\* and the page shows the 'could not load' warning with neither the
\* selection nor the button; nothing crashes and the run is over.
C4_RosterFailureDegrades ==
  \A s \in Sessions :
    "roster_failed" \in sess[s].events =>
      /\ sess[s].shown \cap {"HTTP Error", "Network Error"} # {}
      /\ "exception" \notin sess[s].shown /\ "roster_raised" \notin sess[s].events
      /\ sess[s].options = <<>>
      /\ "could_not_load" \in sess[s].shown
      /\ sess[s].shown \cap {"multiselect", "button", "report"} = {}
      /\ sess[s].pc = "idle" /\ sess[s].trace = <<"fetching-roster">>

C4_Witness ==
  \E s \in Sessions :
    /\ "roster_failed" \in sess[s].events
    /\ "HTTP Error" \in sess[s].shown /\ "could_not_load" \in sess[s].shown
    /\ sess[s].pc = "idle"

\* C5 as stated: any two requests to the Players endpoint are at least one
\* ttl apart, whatever the sessions and reruns that made them.
C5_OneRequestPerWindow ==
  \A i, j \in DOMAIN playersRequests :
    i < j => playersRequests[j].t >= playersRequests[i].t + RosterTTL

\* C5 amended: once get_player_list has returned, a label list or the empty
\* failure result, no request is sent to the Players endpoint by a call that
\* starts less than one ttl after that return, in any session or rerun.
C5_NoRequestAfterReturn ==
  \A i \in DOMAIN playersRequests :
    LET r == playersRequests[i]
    IN  ~(r.seen.set /\ r.t < r.seen.t + RosterTTL)

C5_Witness ==
  \E s, u \in Sessions :
    /\ s # u
    /\ "roster_failed" \in sess[s].events
    /\ "roster_hit" \in sess[u].events /\ sess[u].pc = "idle"
    /\ "could_not_load" \in sess[u].shown
    /\ Len(playersRequests) = 1

\* C7: every stage failure is shown to the user and stops the run there:
\* no later stage is entered in that run, and the session is idle again.
C7_FailureStopsPipeline ==
  \A s \in Sessions :
    /\ "keys_failed" \in sess[s].events =>
         "keys_error" \in sess[s].shown /\ sess[s].trace = <<>> /\ sess[s].pc = "idle"
    /\ "roster_failed" \in sess[s].events =>
         /\ sess[s].shown \cap {"HTTP Error", "Network Error"} # {}
         /\ ~InTrace(s, "awaiting-selection") /\ ~InTrace(s, "resolving-stats")
         /\ sess[s].pc = "idle"
    /\ "stats_failed" \in sess[s].events =>
         /\ "Error fetching stats" \in sess[s].shown
         /\ ~InTrace(s, "composing-prompt") /\ ~InTrace(s, "awaiting-model-response")
         /\ ~InTrace(s, "rendering-result")
         /\ sess[s].pc = "idle"
    /\ "model_failed" \in sess[s].events =>
         /\ "An error occurred" \in sess[s].shown
         /\ ~InTrace(s, "rendering-result") /\ "report" \notin sess[s].shown
         /\ sess[s].pc = "idle"

\* C9: a run passes through the stages in their one order, none skipped,
\* repeated or reordered; the model is called only after a non-empty roster,
\* a non-empty submitted selection and the return of get_player_stats; the
\* report is rendered only after the model call; and a submit with an empty
\* selection reaches neither the stats lookup nor the model call.
C9_LinearStages ==
  \A s \in Sessions :
    LET r == sess[s]
    IN  /\ Len(r.trace) <= Len(Stages)
        /\ \A i \in DOMAIN r.trace : r.trace[i] = Stages[i]
        /\ InTrace(s, "resolving-stats") => r.selected # <<>> /\ r.options # <<>>
        /\ InTrace(s, "awaiting-model-response") =>
             /\ r.options # <<>> /\ r.selected # <<>>
             /\ Range(r.selected) \subseteq Range(r.options)
             /\ "diagnostic" \in r.shown
        /\ "report" \in r.shown => InTrace(s, "rendering-result")
        /\ "select_warning" \in r.shown => ~InTrace(s, "resolving-stats")
        /\ r.pc = "roster-http" => r.trace = SubSeq(Stages, 1, 1)
        /\ r.pc \in {"resolving-stats", "stats-http"} => r.trace = SubSeq(Stages, 1, 3)
        /\ r.pc = "composing-prompt" => r.trace = SubSeq(Stages, 1, 4)
        /\ r.pc = "awaiting-model-response" => r.trace = SubSeq(Stages, 1, 5) /\ r.prompt.names = r.selected

C9_Witness ==
  \E s \in Sessions :
    /\ sess[s].trace = Stages /\ sess[s].pc = "idle"
    /\ "report" \in sess[s].shown

====
